---- MODULE Spec2Model ----
(***************************************************************************)
(* The linked-list PriorityQueue of ilm_qa.py and its driver answer4.      *)
(*                                                                         *)
(* Job objects live in `heap`, a function from object identities (1, 2,    *)
(* ... in order of construction) to the three fields of the dataclass;     *)
(* the reference None of `head` and `next` is NoJob.  Python values that   *)
(* the queue carries or returns are records tagged with their type, so     *)
(* that the str "", the value None and a bool stay different values.       *)
(***************************************************************************)
EXTENDS Integers, Sequences, FiniteSets, TLC

VARIABLES
    head,             \* PriorityQueue.head: a Job identity or NoJob
    heap,             \* the Job objects constructed so far and kept
    result,           \* outcome of the last call made on the queue
    log,              \* history of accepted enqueues and detaching dequeues
    pc,               \* answer4: position in the driver ("api": no driver)
    commands,         \* answer4: the loaded command stream
    n,                \* answer4: loop counter of the current loop
    queued_commands   \* answer4: the commands collected by the dequeue loop

vars == <<head, heap, result, log, pc, commands, n, queued_commands>>

-----------------------------------------------------------------------------
(* Bounds of the model *)

MaxJobs == 3          \* Jobs accepted in one run of the free call sequence
MaxStream == 2        \* length of the generated driver streams

-----------------------------------------------------------------------------
(* Python values *)

None == [type |-> "NoneType"]
Str(s) == [type |-> "str", value |-> s]
Bool(b) == [type |-> "bool", value |-> b]

\* bool(v) for the values the driver tests with `if comm:`
Truthy(v) ==
    CASE v.type = "NoneType" -> FALSE
      [] v.type = "str" -> v.value # ""
      [] v.type = "bool" -> v.value

-----------------------------------------------------------------------------
(* Job *)

MIN_PR == 0
MAX_PR == 10
NoJob == 0

\* mutant: range(MIN_PR, MAX_PR), the upper boundary left out
JobValid_exclusive(priority) == priority \in MIN_PR..(MAX_PR - 1)

\* Job.__post_init__: priority in range(MIN_PR, MAX_PR + 1)
JobValid(priority) == priority \in MIN_PR..MAX_PR

\* the dataclass fields of a new Job; next defaults to None
Job(command, priority) ==
    [command |-> command, priority |-> priority, next |-> NoJob]

\* identity of the next Job object constructed
NewJob(h) == Cardinality(DOMAIN h) + 1

-----------------------------------------------------------------------------
(* PriorityQueue *)

is_empty(hd) == hd = NoJob

\* mutant: the new Job also goes in front of an equal-priority head
HeadBefore_ge(priority, headPriority) == priority >= headPriority

\* line 48: priority > self.head.priority
HeadBefore(priority, headPriority) == priority > headPriority

\* mutant: the traversal stops at the first equal priority
WalkOn_gt(nextPriority, priority) == nextPriority > priority

\* mutant: the comparison of the traversal reversed
WalkOn_le(nextPriority, priority) == nextPriority <= priority

\* line 53: current.next.priority >= priority
WalkOn(nextPriority, priority) == nextPriority >= priority

\* lines 52-54: the while loop, returning the final `current`
RECURSIVE walk(_, _, _)
walk(h, current, priority) ==
    IF h[current].next # NoJob /\ WalkOn(h[h[current].next].priority, priority)
    THEN walk(h, h[current].next, priority)
    ELSE current

\* lines 52-54: the number of iterations of the while loop
RECURSIVE walk_steps(_, _, _)
walk_steps(h, current, priority) ==
    IF h[current].next # NoJob /\ WalkOn(h[h[current].next].priority, priority)
    THEN 1 + walk_steps(h, h[current].next, priority)
    ELSE 0

\* mutant: lines 55 and 56 in the other order, so job.next is the Job itself
insert_swapped(hd, h, job, command, priority) ==
    IF is_empty(hd)
    THEN [head |-> job, heap |-> h @@ (job :> Job(command, priority))]
    ELSE IF HeadBefore(priority, h[hd].priority)
    THEN [head |-> job,
          heap |-> h @@ (job :> [Job(command, priority) EXCEPT !.next = hd])]
    ELSE LET current == walk(h, hd, priority) IN
         [head |-> hd,
          heap |-> [h EXCEPT ![current].next = job]
                   @@ (job :> [Job(command, priority) EXCEPT !.next = job])]

\* mutant: line 55 left out, so the Jobs behind the new one are cut off
insert_drop_tail(hd, h, job, command, priority) ==
    IF is_empty(hd)
    THEN [head |-> job, heap |-> h @@ (job :> Job(command, priority))]
    ELSE IF HeadBefore(priority, h[hd].priority)
    THEN [head |-> job,
          heap |-> h @@ (job :> [Job(command, priority) EXCEPT !.next = hd])]
    ELSE LET current == walk(h, hd, priority) IN
         [head |-> hd,
          heap |-> [h EXCEPT ![current].next = job]
                   @@ (job :> Job(command, priority))]

\* lines 46-56: the three branches that link `job` into the chain
insert(hd, h, job, command, priority) ==
    IF is_empty(hd)
    THEN [head |-> job, heap |-> h @@ (job :> Job(command, priority))]
    ELSE IF HeadBefore(priority, h[hd].priority)
    THEN [head |-> job,
          heap |-> h @@ (job :> [Job(command, priority) EXCEPT !.next = hd])]
    ELSE LET current == walk(h, hd, priority) IN
         [head |-> hd,
          heap |-> [h EXCEPT ![current].next = job]
                   @@ (job :> [Job(command, priority)
                               EXCEPT !.next = h[current].next])]

\* mutant: the Job is linked in first and the priority checked afterwards
enqueue_check_late(hd, h, command, priority) ==
    LET job == NewJob(h)
        r == insert(hd, h, job, command, priority)
    IN  [raised |-> ~JobValid(priority), job |-> job,
         head |-> r.head, heap |-> r.heap]

\* PriorityQueue.enqueue: Job(...) raises AssertionError before any change
enqueue(hd, h, command, priority) ==
    IF ~JobValid(priority)
    THEN [raised |-> TRUE, job |-> NoJob, head |-> hd, heap |-> h]
    ELSE LET job == NewJob(h)
             r == insert(hd, h, job, command, priority)
         IN  [raised |-> FALSE, job |-> job, head |-> r.head, heap |-> r.heap]

\* mutant: an empty queue is an error (IndexError-like) instead of None
dequeue_raise_empty(hd, h) ==
    IF is_empty(hd)
    THEN [raised |-> TRUE, ret |-> None, job |-> NoJob, head |-> hd]
    ELSE [raised |-> FALSE, ret |-> h[hd].command, job |-> hd,
          head |-> h[hd].next]

\* mutant: the head reference is not advanced
dequeue_no_advance(hd, h) ==
    IF is_empty(hd)
    THEN [raised |-> FALSE, ret |-> None, job |-> NoJob, head |-> hd]
    ELSE [raised |-> FALSE, ret |-> h[hd].command, job |-> hd, head |-> hd]

\* mutant: the command is read after head was advanced; on the last Job
\* that read fails (AttributeError)
dequeue_after_advance(hd, h) ==
    IF is_empty(hd)
    THEN [raised |-> FALSE, ret |-> None, job |-> NoJob, head |-> hd]
    ELSE IF h[hd].next = NoJob
    THEN [raised |-> TRUE, ret |-> None, job |-> hd, head |-> h[hd].next]
    ELSE [raised |-> FALSE, ret |-> h[h[hd].next].command, job |-> hd,
          head |-> h[hd].next]

\* PriorityQueue.dequeue
dequeue(hd, h) ==
    IF is_empty(hd)
    THEN [raised |-> FALSE, ret |-> None, job |-> NoJob, head |-> hd]
    ELSE [raised |-> FALSE, ret |-> h[hd].command, job |-> hd,
          head |-> h[hd].next]

\* mutant: peek detaches the head like dequeue
peek_pop(hd, h) == dequeue(hd, h)

\* PriorityQueue.peek
peek(hd, h) ==
    IF is_empty(hd)
    THEN [raised |-> FALSE, ret |-> None, job |-> NoJob, head |-> hd]
    ELSE [raised |-> FALSE, ret |-> h[hd].command, job |-> hd, head |-> hd]

-----------------------------------------------------------------------------
(* Calls on the queue, with their record in result and log *)

EnqueueCall(command, priority) ==
    LET r == enqueue(head, heap, command, priority) IN
    /\ head' = r.head
    /\ heap' = r.heap
    /\ result' = [op |-> "enqueue", args |-> <<command, priority>>,
                  raised |-> r.raised, ret |-> None, job |-> r.job]
    /\ log' = IF r.raised THEN log
              ELSE Append(log, [op |-> "enqueue", job |-> r.job,
                                command |-> command, priority |-> priority])

DequeueCall ==
    LET r == dequeue(head, heap) IN
    /\ head' = r.head
    /\ heap' = heap
    /\ result' = [op |-> "dequeue", args |-> <<>>,
                  raised |-> r.raised, ret |-> r.ret, job |-> r.job]
    /\ log' = IF r.job = NoJob THEN log
              ELSE Append(log, [op |-> "dequeue", job |-> r.job,
                                command |-> r.ret, priority |-> heap[r.job].priority])

PeekCall ==
    LET r == peek(head, heap) IN
    /\ head' = r.head
    /\ heap' = heap
    /\ result' = [op |-> "peek", args |-> <<>>,
                  raised |-> r.raised, ret |-> r.ret, job |-> r.job]
    /\ log' = log

\* mutant: the test inverted (`is not None`)
IsEmptyCall_inverted ==
    /\ result' = [op |-> "is_empty", args |-> <<>>,
                  raised |-> FALSE, ret |-> Bool(~is_empty(head)), job |-> NoJob]
    /\ UNCHANGED <<head, heap, log>>

IsEmptyCall ==
    /\ result' = [op |-> "is_empty", args |-> <<>>,
                  raised |-> FALSE, ret |-> Bool(is_empty(head)), job |-> NoJob]
    /\ UNCHANGED <<head, heap, log>>

NoCall == [op |-> "init", args |-> <<>>, raised |-> FALSE, ret |-> None,
           job |-> NoJob]

\* PriorityQueue.__init__
QueueInit ==
    /\ head = NoJob
    /\ heap = <<>>
    /\ result = NoCall
    /\ log = <<>>

-----------------------------------------------------------------------------
(* The queue under any sequence of calls *)

CommandInputs == {Str("zbe"), None}
PriorityInputs == {-1, 0, 7, 10, 11}

driver == <<pc, commands, n, queued_commands>>

Init ==
    /\ QueueInit
    /\ pc = "api"
    /\ commands = <<>>
    /\ n = 0
    /\ queued_commands = <<>>

Enqueue ==
    /\ \E command \in CommandInputs, priority \in PriorityInputs :
          /\ Cardinality(DOMAIN enqueue(head, heap, command, priority).heap)
                <= MaxJobs
          /\ EnqueueCall(command, priority)
    /\ UNCHANGED driver

Dequeue == DequeueCall /\ UNCHANGED driver

Peek == PeekCall /\ UNCHANGED driver

IsEmpty == IsEmptyCall /\ UNCHANGED driver

Next == Enqueue \/ Dequeue \/ Peek \/ IsEmpty

Spec == Init /\ [][Next]_vars

-----------------------------------------------------------------------------
(* answer4: the driver *)

Pair(command, priority) == [command |-> command, priority |-> priority]

\* line 155: the stream the driver loads
Scenario ==
    << Pair(Str("zbe"), 7), Pair(Str("lmy"), 10), Pair(Str("swc"), 7),
       Pair(Str("jtc"), 2), Pair(Str("slg"), 4), Pair(Str("rwa"), 10),
       Pair(Str("zln"), 1), Pair(Str("ytm"), 6), Pair(Str("aou"), 8),
       Pair(Str("uuv"), 3) >>

\* line 174
expected ==
    << Str("lmy"), Str("rwa"), Str("aou"), Str("zbe"), Str("swc"),
       Str("ytm"), Str("slg"), Str("uuv"), Str("jtc"), Str("zln") >>

\* mutant: the loop bound one short of the stream
MAX_short(cs) == Len(cs) - 1

\* line 161: MAX = len(commands) + 1
MAX(cs) == Len(cs) + 1

\* cs[:stop] for stop >= 0
Slice(cs, stop) == SubSeq(cs, 1, IF stop < Len(cs) THEN stop ELSE Len(cs))

\* other streams the same driver code is run on
PairInputs ==
    { Pair(Str("zbe"), 7), Pair(Str("lmy"), 10), Pair(Str(""), 7),
      Pair(Str("swc"), 11) }

StreamInputs ==
    {Scenario} \cup UNION { [1..len -> PairInputs] : len \in 0..MaxStream }

DriverInit ==
    /\ QueueInit
    /\ pc = "enqueue"
    /\ commands \in StreamInputs
    /\ n = 1
    /\ queued_commands = <<>>

\* lines 162-164: one iteration of `for command in commands[:MAX]`
DriverEnqueue ==
    /\ pc = "enqueue"
    /\ n <= Len(Slice(commands, MAX(commands)))
    /\ EnqueueCall(commands[n].command, commands[n].priority)
    /\ pc' = IF result'.raised THEN "AssertionError: priority" ELSE pc
    /\ n' = n + 1
    /\ UNCHANGED <<commands, queued_commands>>

\* line 166-167: the first loop is exhausted
DriverDequeueing ==
    /\ pc = "enqueue"
    /\ n > Len(Slice(commands, MAX(commands)))
    /\ pc' = "dequeue"
    /\ n' = 0
    /\ UNCHANGED <<head, heap, result, log, commands, queued_commands>>

\* lines 168-172: one iteration of `for _ in range(0, MAX)`
DriverDequeue ==
    /\ pc = "dequeue"
    /\ n < MAX(commands)
    /\ DequeueCall
    /\ queued_commands' = IF Truthy(result'.ret)
                          THEN Append(queued_commands, result'.ret)
                          ELSE queued_commands
    /\ n' = n + 1
    /\ UNCHANGED <<pc, commands>>

\* lines 174-175: the final assertion
DriverAssert ==
    /\ pc = "dequeue"
    /\ n = MAX(commands)
    /\ pc' = IF expected = queued_commands THEN "done"
             ELSE "AssertionError: expected"
    /\ UNCHANGED <<head, heap, result, log, commands, n, queued_commands>>

DriverNext ==
    DriverEnqueue \/ DriverDequeueing \/ DriverDequeue \/ DriverAssert

SpecDriver == DriverInit /\ [][DriverNext]_vars

-----------------------------------------------------------------------------
(* Reading the state *)

\* the Job identities reachable from hd, head first
RECURSIVE Chain(_, _)
Chain(hd, h) == IF hd = NoJob THEN <<>> ELSE <<hd>> \o Chain(h[hd].next, h)

\* the first `fuel` Jobs met from hd along next: defined on any heap
RECURSIVE Path(_, _, _)
Path(hd, h, fuel) ==
    IF hd = NoJob \/ fuel = 0 THEN <<>>
    ELSE <<hd>> \o Path(h[hd].next, h, fuel - 1)

IsEnqueue(e) == e.op = "enqueue"
IsDequeue(e) == e.op = "dequeue"

\* position in the log of the accepted enqueue that constructed `job`
EnqueuePos(job) == CHOOSE k \in 1..Len(log) : IsEnqueue(log[k]) /\ log[k].job = job

\* the Jobs accepted and not yet handed out after the first k events
QueuedAfter(k) ==
    {log[i].job : i \in {j \in 1..k : IsEnqueue(log[j])}}
        \ {log[i].job : i \in {j \in 1..k : IsDequeue(log[j])}}

\* rank of event i of es by descending priority, ties by position
Rank(es, i) ==
    Cardinality({j \in 1..Len(es) :
                    \/ es[j].priority > es[i].priority
                    \/ es[j].priority = es[i].priority /\ j < i})

\* es in priority-then-insertion order
PriorityOrder(es) ==
    [r \in 1..Len(es) |-> es[CHOOSE i \in 1..Len(es) : Rank(es, i) = r - 1]]

\* the run so far is some enqueues followed only by dequeues
DrainRun ==
    \E k \in 0..Len(log) :
        /\ \A i \in 1..k : IsEnqueue(log[i])
        /\ \A i \in (k + 1)..Len(log) : IsDequeue(log[i])

-----------------------------------------------------------------------------
(* Claims *)

\* C1: in every reachable state, rejected enqueues included, the chain read
\* from head to tail has non-increasing priorities.
C1_Sorted ==
    LET c == Chain(head, heap) IN
    \A i \in 1..(Len(c) - 1) : heap[c[i]].priority >= heap[c[i + 1]].priority

C1_Witness ==
    LET c == Chain(head, heap) IN
    /\ Len(c) >= 2
    /\ heap[c[1]].priority > heap[c[Len(c)]].priority
    /\ \E k \in 1..Len(log) : IsDequeue(log[k])
    /\ result.op = "enqueue" /\ result.raised

\* C2: of two Jobs in the chain with equal priority, the one enqueued
\* earlier is nearer the head, under any interleaving of calls.
C2_Stable ==
    LET c == Chain(head, heap) IN
    \A i, j \in 1..Len(c) :
        (i < j /\ heap[c[i]].priority = heap[c[j]].priority)
            => EnqueuePos(c[i]) < EnqueuePos(c[j])

\* an enqueue whose priority equals the head's, after a dequeue
C2_Witness ==
    /\ result.op = "enqueue" /\ ~result.raised
    /\ head # result.job
    /\ heap[head].priority = result.args[2]
    /\ \E k \in 1..Len(log) : IsDequeue(log[k])

\* C3: after n accepted enqueues into the empty queue, the dequeues return
\* the enqueued commands in priority-then-insertion order, each once, and
\* the queue is empty after exactly n of them.
C3_Drain ==
    DrainRun =>
        LET E == SelectSeq(log, IsEnqueue)
            D == SelectSeq(log, IsDequeue)
            S == PriorityOrder(E)
            c == Chain(head, heap)
        IN  /\ Len(D) <= Len(E)
            /\ \A k \in 1..Len(D) :
                  D[k].command = S[k].command /\ D[k].job = S[k].job
            /\ is_empty(head) <=> Len(D) = Len(E)
            /\ Len(c) = Len(E) - Len(D)
            /\ \A k \in 1..Len(c) : c[k] = S[Len(D) + k].job

\* three enqueues out of order with a tie, then drained
C3_Witness ==
    LET E == SelectSeq(log, IsEnqueue)
        D == SelectSeq(log, IsDequeue)
    IN  /\ DrainRun
        /\ Len(E) = 3 /\ Len(D) = 3
        /\ is_empty(head)
        /\ E[1].priority < E[2].priority
        /\ E[1].priority = E[3].priority
        /\ E[1].command # E[3].command
        /\ D[2].command = E[1].command

\* C4: every dequeue on a non-empty queue returns the command of a Job of
\* maximal priority among those queued at that time, and of these the one
\* enqueued earliest.
C4_DequeueMax ==
    \A k \in 1..Len(log) :
        IsDequeue(log[k]) =>
            LET Q == QueuedAfter(k - 1)
                job == log[k].job
                pri(j) == log[EnqueuePos(j)].priority
            IN  /\ job \in Q
                /\ log[k].command = log[EnqueuePos(job)].command
                /\ \A j \in Q :
                      /\ pri(j) <= pri(job)
                      /\ pri(j) = pri(job) => EnqueuePos(job) <= EnqueuePos(j)

\* a dequeue after interleaved calls, leaving an equal-priority Job behind
C4_Witness ==
    /\ result.op = "dequeue" /\ result.job # NoJob
    /\ \E i, j \in 1..Len(log) : i < j /\ IsDequeue(log[i]) /\ IsEnqueue(log[j])
    /\ head # NoJob
    /\ heap[head].priority = heap[result.job].priority
    /\ heap[head].command # result.ret

\* C5: enqueue raises for every priority outside [0, 10] and succeeds for
\* every priority inside it, the accepted Job carrying the priority given.
C5_RangeValidation ==
    result.op = "enqueue" =>
        /\ result.raised <=> ~(0 <= result.args[2] /\ result.args[2] <= 10)
        /\ ~result.raised =>
              /\ result.job \in DOMAIN heap
              /\ heap[result.job].priority = result.args[2]
              /\ heap[result.job].command = result.args[1]
              /\ \E k \in 1..Len(Chain(head, heap)) :
                    Chain(head, heap)[k] = result.job

\* the accepted upper boundary
C5_Witness ==
    /\ result.op = "enqueue" /\ ~result.raised
    /\ result.args[2] = 10
    /\ \E k \in 1..Len(log) : log[k].priority = 0

\* C6: a rejected enqueue leaves the head and the whole chain as they were.
C6_NoPartialInsertion ==
    [][(result'.op = "enqueue" /\ result'.raised)
          => /\ head' = head
             /\ heap' = heap
             /\ Chain(head', heap') = Chain(head, heap)]_vars

C6_Witness ==
    /\ result.op = "enqueue" /\ result.raised
    /\ Len(Chain(head, heap)) >= 2

\* C7: on a queue holding no Job, fresh or drained, is_empty() is true and
\* dequeue() and peek() return None without raising and leave it empty; a
\* following enqueue is accepted as on a fresh queue.
C7_EmptyBehaviour ==
    [][QueuedAfter(Len(log)) = {}
          => /\ result'.op \in {"dequeue", "peek"}
                  => /\ result'.ret = None
                     /\ ~result'.raised
                     /\ head' = NoJob
                     /\ log' = log
             /\ result'.op = "is_empty" => result'.ret = Bool(TRUE)
             /\ (result'.op = "enqueue" /\ ~result'.raised)
                  => Chain(head', heap') = <<result'.job>>]_vars

\* a dequeue on a drained queue
C7_Witness ==
    /\ result.op = "dequeue" /\ result.job = NoJob
    /\ result.ret = None
    /\ log # <<>>
    /\ is_empty(head)

\* C8: peek() changes neither the head nor the chain, so repeated peeks
\* return the same value and is_empty() and the next dequeue() are as before.
C8_PeekIdempotent ==
    [][result'.op = "peek"
          => /\ head' = head
             /\ heap' = heap
             /\ result'.ret = peek(head', heap').ret
             /\ result.op = "peek" => result'.ret = result.ret
             /\ is_empty(head') = is_empty(head)
             /\ dequeue(head', heap') = dequeue(head, heap)]_vars

C8_Witness ==
    /\ result.op = "peek"
    /\ result.job # NoJob
    /\ Len(Chain(head, heap)) >= 2

\* the order the scenario's sentence lists
C9_ScenarioOrder ==
    << Str("lmy"), Str("rwa"), Str("aou"), Str("zbe"), Str("swc"),
       Str("ytm"), Str("slg"), Str("uuv"), Str("jtc"), Str("zln") >>

\* C9: on the stream of the scenario the driver collects exactly lmy, rwa,
\* aou, zbe, swc, ytm, slg, uuv, jtc, zln; its eleventh dequeue returns
\* None, which is not collected, and the final assertion holds.
C9_Scenario ==
    commands = Scenario =>
        /\ pc \in {"enqueue", "dequeue", "done"}
        /\ (pc = "dequeue" /\ n <= 10)
              => queued_commands = SubSeq(C9_ScenarioOrder, 1, n)
        /\ (pc = "dequeue" /\ n = 11)
              => /\ result.op = "dequeue"
                 /\ result.ret = None
                 /\ queued_commands = C9_ScenarioOrder
        /\ pc = "done" => queued_commands = C9_ScenarioOrder

C9_Witness ==
    /\ commands = Scenario
    /\ pc = "done"
    /\ Len(queued_commands) = 10

\* C10: for every command enqueue accepts, dequeue() and peek() return None
\* if and only if the queue is empty at the time of the call.
C10_AbsentIffEmpty ==
    result.op \in {"dequeue", "peek"} =>
        (result.ret = None <=> result.job = NoJob)

\* C11: is_empty() returns true exactly when head is None, which in every
\* state is the same as no Job being queued (as many accepted enqueues as
\* detaching dequeues); the call changes nothing in the queue.
C11_IsEmpty ==
    [][/\ (head' = NoJob) <=> (Chain(head', heap') = <<>>)
       /\ (head' = NoJob) <=>
             (Len(SelectSeq(log', IsEnqueue)) = Len(SelectSeq(log', IsDequeue)))
       /\ result'.op = "is_empty"
             => /\ result'.ret = Bool(head = NoJob)
                /\ result'.ret = Bool(QueuedAfter(Len(log)) = {})
                /\ ~result'.raised
                /\ head' = head
                /\ heap' = heap
                /\ log' = log]_vars

\* is_empty() answering True on a drained queue
C11_Witness ==
    /\ result.op = "is_empty"
    /\ result.ret = Bool(TRUE)
    /\ Len(log) >= 2

\* C12: an accepted enqueue(command, p) on a chain of n Jobs gives a chain
\* of n + 1 Jobs with the new Job at index k (counted from 0), k the number
\* of queued Jobs of priority >= p; it is the head exactly when the queue
\* was empty or p exceeds the head's priority; the Jobs queued before keep
\* their commands, priorities and relative order.
C12_Placement ==
    [][(result'.op = "enqueue" /\ ~result'.raised)
          => LET c == Chain(head, heap)
                 d == Chain(head', heap')
                 p == result'.args[2]
                 k == Cardinality({i \in 1..Len(c) : heap[c[i]].priority >= p})
             IN  /\ Len(d) = Len(c) + 1
                 /\ d[k + 1] = result'.job
                 /\ \A i \in 1..Len(c) : result'.job # c[i]
                 /\ heap'[result'.job].command = result'.args[1]
                 /\ heap'[result'.job].priority = p
                 /\ SubSeq(d, 1, k) \o SubSeq(d, k + 2, Len(d)) = c
                 /\ \A i \in 1..Len(c) :
                       /\ heap'[c[i]].command = heap[c[i]].command
                       /\ heap'[c[i]].priority = heap[c[i]].priority
                 /\ (head' = result'.job)
                       <=> (c = <<>> \/ p > heap[head].priority)]_vars

\* a Job placed between two queued Jobs, behind one of its own priority
C12_Witness ==
    LET d == Chain(head, heap) IN
    /\ result.op = "enqueue" /\ ~result.raised
    /\ Len(d) = 3
    /\ d[2] = result.job
    /\ heap[d[1]].priority = heap[d[2]].priority
    /\ heap[d[2]].priority > heap[d[3]].priority

\* C13: on a non-empty queue dequeue() returns the head Job's command, sets
\* head to that Job's successor, shortens the chain by exactly one and leaves
\* every other Job and their order unchanged; the removed Job is no longer
\* reachable from head.
C13_DequeueStep ==
    [][(result'.op = "dequeue" /\ head # NoJob)
          => LET c == Chain(head, heap)
                 d == Chain(head', heap')
             IN  /\ result'.ret = heap[head].command
                 /\ ~result'.raised
                 /\ head' = heap[head].next
                 /\ Len(d) = Len(c) - 1
                 /\ d = Tail(c)
                 /\ \A i \in 1..Len(d) : heap'[d[i]] = heap[d[i]]
                 /\ \A i \in 1..Len(d) : d[i] # head]_vars

\* a dequeue that leaves two Jobs queued
C13_Witness ==
    /\ result.op = "dequeue"
    /\ result.job # NoJob
    /\ Len(Chain(head, heap)) >= 2
    /\ heap[result.job].next = head

\* C14: the Jobs reachable from head form a finite, cycle-free sequence
\* ending in None with no Job twice, so the traversal of enqueue ends after
\* at most n iterations on a chain of n Jobs.
C14_WellFormed ==
    LET N == Cardinality(DOMAIN heap)
        p == Path(head, heap, N + 1)
    IN  /\ Len(p) <= N
        /\ \A i \in 1..Len(p) : p[i] \in DOMAIN heap
        /\ \A i, j \in 1..Len(p) : i # j => p[i] # p[j]
        /\ p # <<>> => heap[p[Len(p)]].next = NoJob
        /\ \A priority \in MIN_PR..MAX_PR :
              (head # NoJob /\ ~HeadBefore(priority, heap[head].priority))
                  => walk_steps(heap, head, priority) <= Len(p)

\* a chain after a dequeue that the lowest priority traverses to its end
C14_Witness ==
    /\ Len(Chain(head, heap)) = 2
    /\ \E k \in 1..Len(log) : IsDequeue(log[k])
    /\ walk_steps(heap, head, MIN_PR) = 1
    /\ walk_steps(heap, head, heap[head].priority) = 0

\* number of entries of the sequence s equal to v
Count(s, v) == Cardinality({i \in 1..Len(s) : s[i] = v})

\* the set of the entries of the sequence s
JobsOf(s) == {s[i] : i \in 1..Len(s)}

\* C15: after any sequence of calls the commands accepted by enqueue are,
\* as a multiset, those returned by dequeue plus those in the chain; no Job
\* is lost, duplicated or returned twice, and only dequeue removes a Job:
\* every accepted Job is in the chain unless a dequeue handed it out.
C15_Conservation ==
    LET E == SelectSeq(log, IsEnqueue)
        D == SelectSeq(log, IsDequeue)
        c == Chain(head, heap)
        accepted == [i \in 1..Len(E) |-> E[i].command]
        returned == [i \in 1..Len(D) |-> D[i].command]
        queued == [i \in 1..Len(c) |-> heap[c[i]].command]
        enqJobs == [i \in 1..Len(E) |-> E[i].job]
        deqJobs == [i \in 1..Len(D) |-> D[i].job]
    IN  /\ \A v \in JobsOf(accepted) \cup JobsOf(returned) \cup JobsOf(queued) :
              Count(accepted, v) = Count(returned, v) + Count(queued, v)
        /\ \A j \in JobsOf(enqJobs) \cup JobsOf(deqJobs) \cup JobsOf(c) :
              /\ Count(enqJobs, j) = 1
              /\ Count(deqJobs, j) + Count(c, j) = 1
        /\ \A i \in 1..Len(D) : D[i].command = heap[D[i].job].command

\* a command accepted twice, returned once and queued once, the first
\* dequeue made between the enqueues
C15_Witness ==
    LET D == SelectSeq(log, IsDequeue)
        c == Chain(head, heap)
    IN  /\ Len(D) = 2 /\ Len(c) = 1
        /\ D[1].command # D[2].command
        /\ heap[head].command = D[1].command
        /\ log[2].op = "dequeue"

\* C16: the value peek() returned is the value a dequeue() issued right
\* after it returns: the head's command on a non-empty queue, None on an
\* empty one.
C16_PeekDequeueAgree ==
    result.op = "peek" =>
        /\ result.ret = dequeue(head, heap).ret
        /\ result.raised = dequeue(head, heap).raised
        /\ result.job = dequeue(head, heap).job
        /\ head = NoJob => result.ret = None
        /\ head # NoJob => result.ret = heap[head].command

\* a peek whose answer differs from the command of the Job behind the head
C16_Witness ==
    /\ result.op = "peek"
    /\ head # NoJob
    /\ heap[head].next # NoJob
    /\ heap[heap[head].next].command # result.ret

====
